---- MODULE Spec2Model ----
(***************************************************************************)
(* Model of extensions_admin/pulp_rpm/extensions/admin/structure.py: the   *)
(* section tree of the RPM branch of the CLI, the two builders             *)
(* (ensure_root, ensure_repo_structure) and the eleven repo_*_section      *)
(* accessors built on _find_section.                                       *)
(*                                                                         *)
(* The CLI is a sequence of section records; a section's identity is its   *)
(* index, so the order of the sequence is the order of creation.  The      *)
(* CLI's own root section (cli.root_section) has identity 0 and is always  *)
(* there.                                                                  *)
(***************************************************************************)
EXTENDS Integers, Sequences, FiniteSets, TLC

VARIABLES sections, op, ret, log, prev, calls, twice, first_ret

vars == <<sections, op, ret, log, prev, calls, twice, first_ret>>

(* ------------------------------ bounds --------------------------------- *)

\* Number of calls of the module's functions made on one CLI.
MaxCalls == 3

\* Number of top-level sections of other extensions a starting CLI may hold.
MaxForeign == 1

ForeignPool == <<"puppet", "iso", "docker", "ostree">>

DESC_FOREIGN == "section of another extension"

(* ----------------------------- constants ------------------------------- *)

SECTION_ROOT == "rpm"
SECTION_REPO == "repo"
SECTION_COPY == "copy"
SECTION_UPLOADS == "uploads"
SECTION_REMOVE == "remove"
SECTION_CONTENTS == "content"
SECTION_SYNC == "sync"
SECTION_SYNC_SCHEDULES == "schedules"
SECTION_PUBLISH == "publish"
SECTION_EXPORT == "export"
SECTION_GROUP == "group"

DESC_ROOT == "manage RPM-related content and features"
DESC_REPO == "repository lifecycle commands"
DESC_COPY == "copies one or more content units between repositories"
DESC_UPLOADS == "upload modules into a repository"
DESC_REMOVE == "remove copied or uploaded modules from a repository"
DESC_CONTENTS == "search the contents of a repository"
DESC_SYNC == "run, schedule, or view the status of sync tasks"
DESC_SYNC_SCHEDULES == "manage repository sync schedules"
DESC_PUBLISH == "run or view the status of publish tasks"
DESC_EXPORT == "run or view the status of a repository export"
DESC_GROUP_EXPORT == "run or view the status of a repository group export"
DESC_GROUP == "repository group commands"

(* ------------------------- the collaborating CLI ----------------------- *)

\* Python's None: the result of a lookup that finds nothing.
None == -1

\* The AttributeError Python raises when an attribute of None is used.
AttributeError == -2

\* cli.root_section: the identity of the CLI's own root.
root_section == 0

Section(name, description, parent) ==
  [name |-> name, description |-> description, parent |-> parent]

\* section.find_subsection(name): the first child of that name, or None.
find_subsection(cli, section, name) ==
  LET hits == {i \in 1..Len(cli) : cli[i].parent = section /\ cli[i].name = name}
  IN IF hits = {} THEN None ELSE CHOOSE i \in hits : \A j \in hits : i <= j

\* cli.find_section(name): a lookup among the children of the CLI's root.
find_section(cli, name) == find_subsection(cli, root_section, name)

\* The state of one call in progress: the CLI, the calls made on the
\* collaborator so far, the last value obtained and whether the call raised.
Start(cli) == [secs |-> cli, log |-> <<>>, ret |-> None, err |-> FALSE]

Raise(m) == [m EXCEPT !.ret = AttributeError, !.err = TRUE]

\* section.create_subsection(name, description): a new child, appended
\* whether or not a child of that name exists; on None it raises.
create_subsection(m, section, name, description) ==
  IF m.err THEN m
  ELSE IF section < root_section THEN Raise(m)
  ELSE [secs |-> Append(m.secs, Section(name, description, section)),
        log  |-> Append(m.log, [call |-> "create", section |-> section,
                                path |-> <<name>>, id |-> Len(m.secs) + 1,
                                redundant |-> find_subsection(m.secs, section, name) # None]),
        ret  |-> Len(m.secs) + 1,
        err  |-> FALSE]

\* cli.create_section(name, description): a new child of the CLI's root.
create_section(m, name, description) ==
  create_subsection(m, root_section, name, description)

(* ------------------------------ lookups -------------------------------- *)

RECURSIVE walk(_, _, _)
\* The loop of _find_section: section = section.find_subsection(p).
walk(cli, section, path) ==
  IF path = <<>> THEN section
  ELSE IF section = None THEN AttributeError
  ELSE walk(cli, find_subsection(cli, section, Head(path)), Tail(path))

\* _find_section as it would be if it made the section it misses.
find_section_or_create(m, path) ==
  LET found == walk(m.secs, root_section, path)
  IN IF found < root_section
     THEN create_subsection(m, root_section, Head(path), DESC_FOREIGN)
     ELSE [m EXCEPT !.ret = found]

\* _find_section(cli, *path): follows path from the CLI's root; the call
\* returns what the loop ends on, or raises when the loop does.
_find_section(m, path) ==
  LET found == walk(m.secs, root_section, path)
      looked == [m EXCEPT !.log = Append(@, [call |-> "find", section |-> root_section,
                                             path |-> path, id |-> found,
                                             redundant |-> FALSE])]
  IN IF m.err THEN m
     ELSE IF found = AttributeError THEN Raise(looked)
     ELSE [looked EXCEPT !.ret = found]

repo_section(m) == _find_section(m, <<SECTION_ROOT, SECTION_REPO>>)

repo_copy_section(m) ==
  _find_section(m, <<SECTION_ROOT, SECTION_REPO, SECTION_COPY>>)

repo_remove_section(m) ==
  _find_section(m, <<SECTION_ROOT, SECTION_REPO, SECTION_REMOVE>>)

repo_uploads_section(m) ==
  _find_section(m, <<SECTION_ROOT, SECTION_REPO, SECTION_UPLOADS>>)

repo_contents_section(m) ==
  _find_section(m, <<SECTION_ROOT, SECTION_REPO, SECTION_CONTENTS>>)

repo_sync_section(m) ==
  _find_section(m, <<SECTION_ROOT, SECTION_REPO, SECTION_SYNC>>)

repo_sync_schedules_section(m) ==
  _find_section(m, <<SECTION_ROOT, SECTION_REPO, SECTION_SYNC, SECTION_SYNC_SCHEDULES>>)

repo_publish_section(m) ==
  _find_section(m, <<SECTION_ROOT, SECTION_REPO, SECTION_PUBLISH>>)

repo_export_section(m) ==
  _find_section(m, <<SECTION_ROOT, SECTION_REPO, SECTION_EXPORT>>)

repo_group_section(m) ==
  _find_section(m, <<SECTION_ROOT, SECTION_REPO, SECTION_GROUP>>)

\* repo_group_export_section with the path of repo_export_section.
repo_group_export_section_short(m) ==
  _find_section(m, <<SECTION_ROOT, SECTION_REPO, SECTION_EXPORT>>)

repo_group_export_section(m) ==
  _find_section(m, <<SECTION_ROOT, SECTION_REPO, SECTION_GROUP, SECTION_EXPORT>>)

(* ------------------------------ builders ------------------------------- *)

\* ensure_root putting a new section in the place of the one it finds.
ensure_root_replacing(m) ==
  LET found == find_section(m.secs, SECTION_ROOT)
  IN IF found = None
     THEN create_section(m, SECTION_ROOT, DESC_ROOT)
     ELSE [m EXCEPT !.secs[found] = Section(SECTION_ROOT, DESC_REPO, root_section),
                    !.ret = found]

\* ensure_root without the lookup.
ensure_root_unchecked(m) == create_section(m, SECTION_ROOT, DESC_ROOT)

ensure_root(m) ==
  LET found == find_section(m.secs, SECTION_ROOT)
  IN IF found = None
     THEN create_section(m, SECTION_ROOT, DESC_ROOT)
     ELSE [m EXCEPT !.ret = found]

\* direct_subsections in the order of the constants.
direct_subsections_reordered ==
  << <<SECTION_COPY, DESC_COPY>>,
     <<SECTION_UPLOADS, DESC_UPLOADS>>,
     <<SECTION_REMOVE, DESC_REMOVE>>,
     <<SECTION_CONTENTS, DESC_CONTENTS>>,
     <<SECTION_SYNC, DESC_SYNC>>,
     <<SECTION_PUBLISH, DESC_PUBLISH>>,
     <<SECTION_EXPORT, DESC_EXPORT>>,
     <<SECTION_GROUP, DESC_GROUP>> >>

direct_subsections ==
  << <<SECTION_COPY, DESC_COPY>>,
     <<SECTION_REMOVE, DESC_REMOVE>>,
     <<SECTION_CONTENTS, DESC_CONTENTS>>,
     <<SECTION_UPLOADS, DESC_UPLOADS>>,
     <<SECTION_SYNC, DESC_SYNC>>,
     <<SECTION_PUBLISH, DESC_PUBLISH>>,
     <<SECTION_EXPORT, DESC_EXPORT>>,
     <<SECTION_GROUP, DESC_GROUP>> >>

RECURSIVE create_each(_, _, _)
\* for name, description in direct_subsections: create_subsection(...)
create_each(m, section, subs) ==
  IF subs = <<>> THEN m
  ELSE create_each(create_subsection(m, section, Head(subs)[1], Head(subs)[2]),
                   section, Tail(subs))

\* create_repo_structure without the sections of the third tier.
create_repo_structure_two_tiers(m1, root) ==
  LET m2 == create_subsection(m1, root, SECTION_REPO, DESC_REPO)
      m3 == create_each(m2, m2.ret, direct_subsections)
  IN IF m3.err THEN m3 ELSE [m3 EXCEPT !.ret = m2.ret]

\* The part of ensure_repo_structure that runs when repo is absent.
create_repo_structure(m1, root) ==
  LET m2 == create_subsection(m1, root, SECTION_REPO, DESC_REPO)
      repo == m2.ret
      m3 == create_each(m2, repo, direct_subsections)
      m4 == repo_sync_section(m3)
      m5 == create_subsection(m4, m4.ret, SECTION_SYNC_SCHEDULES, DESC_SYNC_SCHEDULES)
      m6 == repo_group_section(m5)
      m7 == create_subsection(m6, m6.ret, SECTION_EXPORT, DESC_GROUP_EXPORT)
  IN IF m7.err THEN m7 ELSE [m7 EXCEPT !.ret = repo]

\* ensure_repo_structure looking for repo at the top of the CLI.
ensure_repo_structure_top_lookup(m) ==
  LET m1 == ensure_root(m)
      found == find_section(m1.secs, SECTION_REPO)
  IN IF found # None
     THEN [m1 EXCEPT !.ret = found]
     ELSE create_repo_structure(m1, m1.ret)

\* ensure_repo_structure without the return on an existing repo.
ensure_repo_structure_rebuilding(m) ==
  LET m1 == ensure_root(m)
  IN create_repo_structure(m1, m1.ret)

\* ensure_repo_structure adding the direct subsections an existing repo lacks.
ensure_repo_structure_repairing(m) ==
  LET m1 == ensure_root(m)
      found == find_subsection(m1.secs, m1.ret, SECTION_REPO)
      missing == SelectSeq(direct_subsections,
                           LAMBDA d : find_subsection(m1.secs, found, d[1]) = None)
  IN IF found # None
     THEN [create_each(m1, found, missing) EXCEPT !.ret = found]
     ELSE create_repo_structure(m1, m1.ret)

ensure_repo_structure(m) ==
  LET m1 == ensure_root(m)
      root == m1.ret
      found == find_subsection(m1.secs, root, SECTION_REPO)
  IN IF m1.err THEN m1
     ELSE IF root < root_section THEN Raise(m1)
     ELSE IF found # None THEN [m1 EXCEPT !.ret = found]
     ELSE create_repo_structure(m1, root)

(* --------------------------- starting CLIs ----------------------------- *)

\* The sections the module knows, parents before children.
Schema ==
  << [path |-> <<"rpm">>, description |-> DESC_ROOT],
     [path |-> <<"rpm", "repo">>, description |-> DESC_REPO],
     [path |-> <<"rpm", "repo", "copy">>, description |-> DESC_COPY],
     [path |-> <<"rpm", "repo", "uploads">>, description |-> DESC_UPLOADS],
     [path |-> <<"rpm", "repo", "remove">>, description |-> DESC_REMOVE],
     [path |-> <<"rpm", "repo", "content">>, description |-> DESC_CONTENTS],
     [path |-> <<"rpm", "repo", "sync">>, description |-> DESC_SYNC],
     [path |-> <<"rpm", "repo", "sync", "schedules">>, description |-> DESC_SYNC_SCHEDULES],
     [path |-> <<"rpm", "repo", "publish">>, description |-> DESC_PUBLISH],
     [path |-> <<"rpm", "repo", "export">>, description |-> DESC_EXPORT],
     [path |-> <<"rpm", "repo", "group">>, description |-> DESC_GROUP],
     [path |-> <<"rpm", "repo", "group", "export">>, description |-> DESC_GROUP_EXPORT] >>

Front(s) == SubSeq(s, 1, Len(s) - 1)

Last(s) == s[Len(s)]

\* A set of rows of the schema that holds the parent of each of its rows.
Closed(S) ==
  \A i \in S : Len(Schema[i].path) > 1 =>
     \E j \in S : Schema[j].path = Front(Schema[i].path)

RECURSIVE populate(_, _, _)
\* The CLI holding cli's sections and the rows S of the schema from row i on.
populate(cli, S, i) ==
  IF i > Len(Schema) THEN cli
  ELSE IF i \in S
       THEN populate(Append(cli, Section(Last(Schema[i].path), Schema[i].description,
                                         walk(cli, root_section, Front(Schema[i].path)))),
                     S, i + 1)
       ELSE populate(cli, S, i + 1)

\* k top-level sections of other extensions.
foreign(k) == [i \in 1..k |-> Section(ForeignPool[i], DESC_FOREIGN, root_section)]

\* The CLIs a call may find: any part of the schema, sibling names unique,
\* beside the sections of other extensions.
StartTrees ==
  {populate(foreign(k), S, 1) :
     k \in 0..MaxForeign, S \in {T \in SUBSET (1..Len(Schema)) : Closed(T)}}

(* ------------------------------ actions -------------------------------- *)

Init ==
  /\ sections \in StartTrees
  /\ op = "none"
  /\ ret = None
  /\ log = <<>>
  /\ prev = sections
  /\ calls = 0
  /\ twice = FALSE
  /\ first_ret = None

\* A fresh CLI: no section at all.
InitFresh ==
  /\ sections = <<>>
  /\ op = "none"
  /\ ret = None
  /\ log = <<>>
  /\ prev = sections
  /\ calls = 0
  /\ twice = FALSE
  /\ first_ret = None

\* One call of the function called name, which ends in the state m: the
\* CLI it leaves, what it returned (or that it raised) and the calls it
\* made on the CLI.  prev keeps the CLI the call found; twice says that the
\* call before was a call of the same function, which returned first_ret.
Call(name, m) ==
  /\ calls < MaxCalls
  /\ op' = name
  /\ sections' = m.secs
  /\ ret' = m.ret
  /\ log' = m.log
  /\ prev' = sections
  /\ calls' = calls + 1
  /\ twice' = (op = name)
  /\ first_ret' = IF op = name THEN ret ELSE None

EnsureRoot == Call("ensure_root", ensure_root(Start(sections)))

EnsureRepoStructure ==
  Call("ensure_repo_structure", ensure_repo_structure(Start(sections)))

RepoSection == Call("repo_section", repo_section(Start(sections)))

RepoCopySection == Call("repo_copy_section", repo_copy_section(Start(sections)))

RepoRemoveSection == Call("repo_remove_section", repo_remove_section(Start(sections)))

RepoUploadsSection == Call("repo_uploads_section", repo_uploads_section(Start(sections)))

RepoContentsSection == Call("repo_contents_section", repo_contents_section(Start(sections)))

RepoSyncSection == Call("repo_sync_section", repo_sync_section(Start(sections)))

RepoSyncSchedulesSection ==
  Call("repo_sync_schedules_section", repo_sync_schedules_section(Start(sections)))

RepoPublishSection == Call("repo_publish_section", repo_publish_section(Start(sections)))

RepoExportSection == Call("repo_export_section", repo_export_section(Start(sections)))

RepoGroupSection == Call("repo_group_section", repo_group_section(Start(sections)))

RepoGroupExportSection ==
  Call("repo_group_export_section", repo_group_export_section(Start(sections)))

Next ==
  \/ EnsureRoot
  \/ EnsureRepoStructure
  \/ RepoSection
  \/ RepoCopySection
  \/ RepoRemoveSection
  \/ RepoUploadsSection
  \/ RepoContentsSection
  \/ RepoSyncSection
  \/ RepoSyncSchedulesSection
  \/ RepoPublishSection
  \/ RepoExportSection
  \/ RepoGroupSection
  \/ RepoGroupExportSection

\* Calls on any starting CLI.
Spec == Init /\ [][Next]_vars

\* Calls on a fresh CLI.
SpecFresh == InitFresh /\ [][Next]_vars

(* ------------------------ vocabulary of the claims --------------------- *)

\* The fixed path of each accessor.
AccessorPath ==
  [repo_section                |-> <<"rpm", "repo">>,
   repo_copy_section           |-> <<"rpm", "repo", "copy">>,
   repo_remove_section         |-> <<"rpm", "repo", "remove">>,
   repo_uploads_section        |-> <<"rpm", "repo", "uploads">>,
   repo_contents_section       |-> <<"rpm", "repo", "content">>,
   repo_sync_section           |-> <<"rpm", "repo", "sync">>,
   repo_sync_schedules_section |-> <<"rpm", "repo", "sync", "schedules">>,
   repo_publish_section        |-> <<"rpm", "repo", "publish">>,
   repo_export_section         |-> <<"rpm", "repo", "export">>,
   repo_group_section          |-> <<"rpm", "repo", "group">>,
   repo_group_export_section   |-> <<"rpm", "repo", "group", "export">>]

Accessors == DOMAIN AccessorPath

Builders == {"ensure_root", "ensure_repo_structure"}

RECURSIVE PathOf(_, _)
\* The names from the CLI's root down to section id.
PathOf(cli, id) ==
  IF id = root_section THEN <<>>
  ELSE Append(PathOf(cli, cli[id].parent), cli[id].name)

\* The sections of cli that lie at path.
At(cli, path) == {i \in 1..Len(cli) : PathOf(cli, i) = path}

Present(cli, path) == At(cli, path) # {}

Paths(cli) == {PathOf(cli, i) : i \in 1..Len(cli)}

\* The description the schema gives for path.
SchemaDescription(path) ==
  LET row == CHOOSE i \in 1..Len(Schema) : Schema[i].path = path
  IN Schema[row].description

\* id is a section of cli at path, described as the schema says.
IsSchemaSection(cli, id, path) ==
  /\ id \in 1..Len(cli)
  /\ cli[id].name = Last(path)
  /\ PathOf(cli, id) = path
  /\ PathOf(cli, cli[id].parent) = Front(path)
  /\ cli[id].description = SchemaDescription(path)

\* s is t followed by more.
IsPrefix(t, s) == Len(t) <= Len(s) /\ SubSeq(s, 1, Len(t)) = t

(* ------------------------------- claims -------------------------------- *)

\* C1: on a fresh CLI, once ensure_repo_structure has run, every accessor
\* returns a present section that has the last name of the accessor's fixed
\* path, lies under the rest of that path and carries the description the
\* schema gives for that path.
C1_AccessorsFindTheSchema ==
  (op \in Accessors /\ Present(prev, <<"rpm", "repo">>)) =>
     /\ IsSchemaSection(sections, ret, AccessorPath[op])
     /\ (op = "repo_export_section" => sections[ret].description = DESC_EXPORT)
     /\ (op = "repo_group_export_section" =>
           sections[ret].description = DESC_GROUP_EXPORT)

C1_Witness ==
  /\ op = "repo_sync_schedules_section"
  /\ calls = 2
  /\ Len(prev) = 12
  /\ ret \in 1..Len(sections)
  /\ sections[ret].name = "schedules"
  /\ PathOf(sections, sections[ret].parent) = <<"rpm", "repo", "sync">>

\* C2: an accessor whose path has a segment missing from the CLI returns
\* None and raises nothing.
C2_MissingSegmentReturnsNone ==
  (op \in Accessors /\ ~Present(prev, AccessorPath[op])) => ret = None

\* C3: a call of ensure_repo_structure that follows a call of
\* ensure_repo_structure leaves the CLI as the first call left it, creates
\* nothing, raises nothing and returns the repo section the first returned.
C3_EnsureRepoStructureIdempotent ==
  (op = "ensure_repo_structure" /\ twice) =>
     /\ sections = prev
     /\ \A k \in 1..Len(log) : log[k].call # "create"
     /\ ret \in 1..Len(sections)
     /\ ret = first_ret
     /\ PathOf(sections, ret) = <<"rpm", "repo">>
     /\ \A i, j \in 1..Len(sections) :
          PathOf(sections, i) = PathOf(sections, j) => i = j

\* The first of the two calls built the structure beside a section of
\* another extension.
C3_Witness ==
  /\ op = "ensure_repo_structure"
  /\ twice
  /\ calls = 2
  /\ Len(sections) = 13
  /\ sections[1].name = "puppet"
  /\ sections[5].name = "remove"
  /\ ret = 3

C5_EnsureRootLooksUpBeforeCreating ==
  op = "ensure_root" =>
     /\ ret \in 1..Len(sections)
     /\ sections[ret].name = "rpm"
     /\ sections[ret].parent = root_section
     /\ (Present(prev, <<"rpm">>) => sections = prev /\ ret \in At(prev, <<"rpm">>))
     /\ (~Present(prev, <<"rpm">>) =>
           /\ sections = Append(prev, Section("rpm", DESC_ROOT, root_section))
           /\ ret = Len(sections))
     /\ (twice => sections = prev /\ ret = first_ret)

C5_Witness ==
  /\ op = "ensure_root"
  /\ twice
  /\ calls = 2
  /\ sections = <<Section("puppet", DESC_FOREIGN, root_section),
                  Section("rpm", DESC_ROOT, root_section)>>
  /\ ret = 2

\* C6: a call of an accessor leaves the CLI as it found it, whether it
\* finds its section, finds nothing or raises.
C6_AccessorsReadOnly ==
  op \in Accessors => sections = prev

C6_Witness ==
  /\ op = "repo_publish_section"
  /\ ret = None
  /\ Present(sections, <<"rpm", "repo">>)
  /\ Len(log) = 1
  /\ log[1].call = "find"

\* The paths of the schema.
SchemaPaths == {Schema[row].path : row \in 1..Len(Schema)}

\* C7: a CLI that starts empty is, between calls, empty, or holds rpm
\* alone, or holds exactly the twelve sections of the schema: repo under
\* rpm, its eight children, schedules under sync and export under group.
C7_FixedShape ==
  /\ Cardinality(Paths(sections)) = Len(sections)
  /\ \/ Paths(sections) = {}
     \/ Paths(sections) = {<<"rpm">>}
     \/ /\ Paths(sections) = SchemaPaths
        /\ Len(sections) = 12
        /\ \A i \in 1..Len(sections) :
             Len(PathOf(sections, i)) = 4 =>
                PathOf(sections, i) \in {<<"rpm", "repo", "sync", "schedules">>,
                                         <<"rpm", "repo", "group", "export">>}

C7_Witness ==
  /\ op = "ensure_repo_structure"
  /\ prev = <<>>
  /\ Paths(sections) = SchemaPaths
  /\ Len(sections) = 12

\* C8: no call creates a section under a parent that has a child of that
\* name, and sibling names stay unique under every parent.
C8_NoRedundantCreation ==
  /\ \A k \in 1..Len(log) : log[k].call = "create" => ~log[k].redundant
  /\ \A i, j \in 1..Len(sections) :
       (sections[i].parent = sections[j].parent
          /\ sections[i].name = sections[j].name) => i = j

\* The structure was built: the two sections named export have the
\* parents repo and group.
C8_Witness ==
  /\ op = "ensure_repo_structure"
  /\ Len(log) > 10
  /\ \E i, j \in 1..Len(sections) :
       /\ i # j
       /\ sections[i].name = "export"
       /\ sections[j].name = "export"
       /\ sections[sections[i].parent].name = "repo"
       /\ sections[sections[j].parent].name = "group"

\* C9: a call leaves every section it finds in place, with its name,
\* description and parent; only ensure_root and ensure_repo_structure add
\* sections, and no call removes one.
C9_ExistenceMonotonic ==
  /\ IsPrefix(prev, sections)
  /\ (Len(sections) > Len(prev) => op \in Builders)
  /\ \A k \in 1..Len(log) : log[k].call = "create" => op \in Builders

C9_Witness ==
  /\ op = "ensure_repo_structure"
  /\ Present(prev, <<"rpm">>)
  /\ Len(prev) = 2
  /\ Len(sections) = 13
  /\ IsPrefix(prev, sections)

\* The sections a call of ensure_repo_structure creates below root, the
\* first of them getting the identity first.
CreatedBelow(root, first) ==
  << Section("repo", DESC_REPO, root),
     Section("copy", DESC_COPY, first),
     Section("remove", DESC_REMOVE, first),
     Section("content", DESC_CONTENTS, first),
     Section("uploads", DESC_UPLOADS, first),
     Section("sync", DESC_SYNC, first),
     Section("publish", DESC_PUBLISH, first),
     Section("export", DESC_EXPORT, first),
     Section("group", DESC_GROUP, first),
     Section("schedules", DESC_SYNC_SCHEDULES, first + 5),
     Section("export", DESC_GROUP_EXPORT, first + 8) >>

\* The calls on the CLI, as <<call, last name of the path, identity>>.
LogSummary == [k \in 1..Len(log) |-> <<log[k].call, Last(log[k].path), log[k].id>>]

\* The calls a call of ensure_repo_structure makes from the creation of
\* repo on, repo getting the identity first.
CallsBelow(first) ==
  << <<"create", "repo", first>>,
     <<"create", "copy", first + 1>>,
     <<"create", "remove", first + 2>>,
     <<"create", "content", first + 3>>,
     <<"create", "uploads", first + 4>>,
     <<"create", "sync", first + 5>>,
     <<"create", "publish", first + 6>>,
     <<"create", "export", first + 7>>,
     <<"create", "group", first + 8>>,
     <<"find", "sync", first + 5>>,
     <<"create", "schedules", first + 9>>,
     <<"find", "group", first + 8>>,
     <<"create", "export", first + 10>> >>

\* C10: a call of ensure_repo_structure that finds repo absent creates rpm
\* (if absent), repo, copy, remove, content, uploads, sync, publish, export,
\* group, sync.schedules and group.export, in this order; its lookups of
\* rpm.repo.sync and rpm.repo.group find the sections just created; it
\* raises nothing and returns the repo it created.
C10_CreationOrder ==
  (op = "ensure_repo_structure" /\ ~Present(prev, <<"rpm", "repo">>)) =>
     IF Present(prev, <<"rpm">>)
     THEN /\ sections = prev \o CreatedBelow(CHOOSE r \in At(prev, <<"rpm">>) : TRUE,
                                             Len(prev) + 1)
          /\ LogSummary = CallsBelow(Len(prev) + 1)
          /\ ret = Len(prev) + 1
     ELSE /\ sections = Append(prev, Section("rpm", DESC_ROOT, root_section))
                           \o CreatedBelow(Len(prev) + 1, Len(prev) + 2)
          /\ LogSummary = <<<<"create", "rpm", Len(prev) + 1>>>> \o CallsBelow(Len(prev) + 2)
          /\ ret = Len(prev) + 2

C10_Witness ==
  /\ op = "ensure_repo_structure"
  /\ prev = <<Section("puppet", DESC_FOREIGN, root_section)>>
  /\ Len(sections) = 13
  /\ Len(log) = 14
  /\ ret = 3

====
